---- MODULE Spec2Model ----
(***************************************************************************)
(* Model of server.py: the Jellyfin -> Home Assistant relay.               *)
(*                                                                         *)
(* State: the configured allow-list, the session map, the threading.Timer  *)
(* threads started by process_event, and the event handed to emit() by the *)
(* last step.  process_event runs its whole body under _lock, and so does  *)
(* _confirm_pause, so each is one atomic action.  A threading.Timer thread *)
(* waits for its interval, tests its `finished` event and then calls the   *)
(* callback; the test and the callback's lock acquisition are separate     *)
(* steps, so a timer can have passed the test ("expired") and be waiting   *)
(* for _lock while process_event cancels it.  emit() hands each payload to  *)
(* a thread that runs _notify_ha; the specification with delivery has one  *)
(* action for that thread's run.                                           *)
(*                                                                         *)
(* Strings that the code inspects character by character (device names,    *)
(* ALLOWED_DEVICES) are sequences of one-character strings.                *)
(***************************************************************************)
EXTENDS Integers, Sequences, FiniteSets, TLC

VARIABLES ALLOWED_DEVICES, sessions, timers, lastEmit, lastOp, ended, run, stopped,
          pausing, HA_WEBHOOK_URL, notify

\* ALLOWED_DEVICES, sessions: the module globals of server.py.  timers: the Timer
\* threads.  lastEmit: the payloads the last step handed to emit().  lastOp: what
\* the last step was.  ended, run, stopped, pausing: history variables (see
\* the specifications).  HA_WEBHOOK_URL: the module global.  notify: the threads
\* emit() has started to run _notify_ha (only the specification with delivery
\* starts them).
vars == <<ALLOWED_DEVICES, sessions, timers, lastEmit, lastOp, ended, run, stopped,
          pausing, HA_WEBHOOK_URL, notify>>

\* ---------------------------------------------------------------- bounds

\* Most Timer threads alive at once for one device (waiting, or expired and
\* waiting for _lock).
MaxTimers == 2

\* The same bound in the two-device specification.
MaxTimersTwo == 1

\* The plays counted in one run of records.
MaxPlays == 2

\* The `pause` events counted after one arming of the debounce.
MaxPauses == 2

\* Most _notify_ha threads running at once.
MaxNotify == 2

\* ---------------------------------------------------------------- config

CREDITS_THRESHOLD_PCT == 95

\* ------------------------------------------------------- string helpers

\* str.lower() on the alphabet the model uses.
LowerCh(c) ==
    CASE c = "T" -> "t"
      [] c = "V" -> "v"
      [] c = "P" -> "p"
      [] c = "C" -> "c"
      [] OTHER -> c

Lower(s) == [i \in 1..Len(s) |-> LowerCh(s[i])]

IsSpace(c) == c = " "

RECURSIVE LStrip(_)
LStrip(s) == IF s # <<>> /\ IsSpace(Head(s)) THEN LStrip(Tail(s)) ELSE s

RECURSIVE RStrip(_)
RStrip(s) ==
    IF s # <<>> /\ IsSpace(s[Len(s)]) THEN RStrip(SubSeq(s, 1, Len(s) - 1)) ELSE s

\* str.strip()
Strip(s) == RStrip(LStrip(s))

\* str.split(","): the pieces between commas, empty pieces included.
RECURSIVE SplitFrom(_, _, _)
SplitFrom(s, i, cur) ==
    IF i > Len(s) THEN <<cur>>
    ELSE IF s[i] = "," THEN <<cur>> \o SplitFrom(s, i + 1, <<>>)
    ELSE SplitFrom(s, i + 1, Append(cur, s[i]))

Split(s) == SplitFrom(s, 1, <<>>)

\* ALLOWED_DEVICES as computed from ALLOWED_DEVICES_RAW.
ParseAllowed(raw) ==
    IF raw # <<>>
    THEN LET parts == Split(raw)
         IN  {Lower(Strip(parts[i])) : i \in {j \in 1..Len(parts) : Strip(parts[j]) # <<>>}}
    ELSE {}

\* dict.get(key, default)
Get(body, key, default) == IF key \in DOMAIN body THEN body[key] ELSE default

\* -------------------------------------------------------------- sessions

None == 0

\* Session(device_id=d): the dataclass defaults.
Session(d) ==
    [device_id |-> d, device_name |-> <<>>, client_name |-> "", media_name |-> "",
     media_type |-> "", item_id |-> "", run_time_ticks |-> 0,
     state |-> "idle", last_position_ticks |-> 0, media_end_emitted |-> FALSE,
     pause_timer |-> None, debouncing |-> FALSE]

\* ---------------------------------------------------------------- timers

\* One threading.Timer thread.  phase: "none" (no such thread), "waiting" (in
\* finished.wait(interval)), "expired" (past the finished.is_set() test, about to
\* run the callback).  cancelled: Timer.cancel() was called on it.  interrupted
\* is a history field: a record that should supersede the pause candidate has
\* been processed since the timer was armed.
NoTimer == [phase |-> "none", cancelled |-> FALSE, interrupted |-> FALSE]

TimerIds == 1..MaxTimers

\* Timer.cancel(): sets `finished`.  A thread still waiting wakes up, sees the
\* event set and exits without calling the function; a thread already past the
\* test is not stopped.
TimerCancel(tm, t) ==
    IF tm[t].phase = "waiting" THEN [tm EXCEPT ![t] = NoTimer]
    ELSE IF tm[t].phase = "expired" THEN [tm EXCEPT ![t].cancelled = TRUE]
    ELSE tm

\* A step of process_event or _confirm_pause works on a context: the session s,
\* the device's timer threads tm, the events handed to emit() so far (out), and
\* blocked, set when the step would need more than MaxTimers threads.

cancel_pause_timer(c) ==
    [c EXCEPT !.s.pause_timer = None,
              !.s.debouncing = FALSE,
              !.tm = IF c.s.pause_timer # None THEN TimerCancel(c.tm, c.s.pause_timer)
                     ELSE c.tm]

\* ---------------------------------------------------------------- notify

\* round(position / run_time * 100, 1), in tenths of a percent.
RoundPct(position, run_time) == (2 * position * 1000 + run_time) \div (2 * run_time)

position_pct(s) ==
    IF s.run_time_ticks > 0 THEN RoundPct(s.last_position_ticks, s.run_time_ticks) ELSE 0

\* The payload emit() builds (without its wall-clock timestamp).  did names the
\* Session object passed to emit().
Payload(event, s) ==
    [event |-> event, did |-> s.device_id, device |-> s.device_name,
     client |-> s.client_name, media |-> s.media_name, media_type |-> s.media_type,
     position_pct |-> position_pct(s)]

emit(event, c) == [c EXCEPT !.out = Append(c.out, Payload(event, c.s))]

\* One thread started by emit() to run _notify_ha(payload): "none" (no such
\* thread) or "running".
NoThread == [status |-> "none"]

NotifyIds == 1..MaxNotify

\* ----------------------------------------------------------- core logic

\* position / run_time * 100 >= pct
PctAtLeast(position, run_time, pct) == position * 100 >= pct * run_time

\* "Update metadata": body.get(key, previous) for the four names, and
\* run_time_ticks or previous for the run length.
UpdateMetadata(s, body) ==
    [s EXCEPT !.device_name = Get(body, "DeviceName", s.device_name),
              !.client_name = Get(body, "ClientName", s.client_name),
              !.media_name = Get(body, "Name", s.media_name),
              !.media_type = Get(body, "ItemType", s.media_type),
              !.run_time_ticks = IF Get(body, "RunTimeTicks", 0) # 0
                                 THEN Get(body, "RunTimeTicks", 0)
                                 ELSE s.run_time_ticks]

\* "New media item -> reset"
IsNewItem(s, body) == Get(body, "ItemId", "") # "" /\ Get(body, "ItemId", "") # s.item_id

\* The reset on a new item without clearing media_end_emitted.
NewItem_KeepsFlag(c, body) ==
    IF IsNewItem(c.s, body)
    THEN [cancel_pause_timer(c) EXCEPT !.s.item_id = Get(body, "ItemId", "")]
    ELSE c

NewItem(c, body) ==
    IF IsNewItem(c.s, body)
    THEN [cancel_pause_timer(c) EXCEPT !.s.item_id = Get(body, "ItemId", ""),
                                       !.s.media_end_emitted = FALSE]
    ELSE c

\* PlaybackStart without the cancel_pause_timer() call.
PlaybackStart_NoCancel(c, body) ==
    emit("PlaybackStart",
         [c EXCEPT !.s.last_position_ticks = Get(body, "PlaybackPositionTicks", 0),
                   !.s.state = "playing",
                   !.s.media_end_emitted = FALSE])

PlaybackStart(c, body) ==
    LET c1 == cancel_pause_timer(c)
        c2 == [c1 EXCEPT !.s.last_position_ticks = Get(body, "PlaybackPositionTicks", 0),
                         !.s.state = "playing",
                         !.s.media_end_emitted = FALSE]
    IN  emit("PlaybackStart", c2)

PlaybackStop(c, body) ==
    LET c1 == cancel_pause_timer(c)
        c2 == [c1 EXCEPT !.s.last_position_ticks = Get(body, "PlaybackPositionTicks", 0),
                         !.s.state = "idle"]
    IN  emit("PlaybackStop", c2)

\* "Reset media_end if user seeks backward below threshold"
CreditsReset(c, position_ticks) ==
    IF /\ c.s.media_end_emitted
       /\ c.s.run_time_ticks > 0
       /\ ~PctAtLeast(position_ticks, c.s.run_time_ticks, CREDITS_THRESHOLD_PCT)
    THEN [c EXCEPT !.s.media_end_emitted = FALSE]
    ELSE c

\* The credits check without its media_end_emitted test.
CreditsReached_IgnoresFlag(s, position_ticks) ==
    /\ s.run_time_ticks > 0
    /\ PctAtLeast(position_ticks, s.run_time_ticks, CREDITS_THRESHOLD_PCT)

\* The condition of "Check media_end (credits)"
CreditsReached(s, position_ticks) ==
    /\ ~s.media_end_emitted
    /\ s.run_time_ticks > 0
    /\ PctAtLeast(position_ticks, s.run_time_ticks, CREDITS_THRESHOLD_PCT)

\* Credits detection without the cancel_pause_timer() call.
MediaEnd_NoCancel(c) ==
    emit("media_end", [c EXCEPT !.s.media_end_emitted = TRUE, !.s.state = "idle"])

MediaEnd(c) ==
    LET c1 == cancel_pause_timer(c)
        c2 == [c1 EXCEPT !.s.media_end_emitted = TRUE, !.s.state = "idle"]
    IN  emit("media_end", c2)

\* Resume with the seek branch falling through to an emission.
Resume_PlayOnSeek(c) ==
    IF c.s.debouncing THEN emit("play", cancel_pause_timer(c))
    ELSE IF c.s.state \in {"paused", "idle"}
         THEN IF c.s.media_end_emitted THEN c
              ELSE emit("play", [c EXCEPT !.s.state = "playing"])
    ELSE c

\* Resume without the "skip play" test.
Resume_IgnoresMediaEnd(c) ==
    IF c.s.debouncing THEN cancel_pause_timer(c)
    ELSE IF c.s.state \in {"paused", "idle"}
         THEN emit("play", [c EXCEPT !.s.state = "playing"])
    ELSE c

\* Resume without the test of the current state.
Resume_AnyState(c) ==
    IF c.s.debouncing THEN cancel_pause_timer(c)
    ELSE IF c.s.media_end_emitted THEN c
    ELSE emit("play", [c EXCEPT !.s.state = "playing"])

\* "IsPaused=false -> playing"
Resume(c) ==
    IF c.s.debouncing THEN cancel_pause_timer(c)
    ELSE IF c.s.state \in {"paused", "idle"}
         THEN IF c.s.media_end_emitted THEN c
              ELSE emit("play", [c EXCEPT !.s.state = "playing"])
    ELSE c

FreeTimers(tm) == {t \in TimerIds : tm[t].phase = "none"}

\* The pause candidate without the test of the flag: every paused sample in
\* state playing starts a new Timer.
PauseCandidate_Rearm(c) ==
    IF c.s.state = "playing"
    THEN IF FreeTimers(c.tm) = {} THEN [c EXCEPT !.blocked = TRUE]
         ELSE LET t == CHOOSE x \in FreeTimers(c.tm) : \A y \in FreeTimers(c.tm) : x <= y
              IN  [c EXCEPT !.s.debouncing = TRUE,
                            !.s.pause_timer = t,
                            !.tm[t] = [phase |-> "waiting", cancelled |-> FALSE,
                                       interrupted |-> FALSE]]
    ELSE c

\* The pause candidate with the Timer created but never started.
PauseCandidate_NoStart(c) ==
    IF c.s.state = "playing" /\ ~c.s.debouncing
    THEN IF FreeTimers(c.tm) = {} THEN [c EXCEPT !.blocked = TRUE]
         ELSE LET t == CHOOSE x \in FreeTimers(c.tm) : \A y \in FreeTimers(c.tm) : x <= y
              IN  [c EXCEPT !.s.debouncing = TRUE, !.s.pause_timer = t]
    ELSE c

\* "IsPaused=true -> maybe pause": set the flag, create and start the Timer.
PauseCandidate(c) ==
    IF c.s.state = "playing" /\ ~c.s.debouncing
    THEN IF FreeTimers(c.tm) = {} THEN [c EXCEPT !.blocked = TRUE]
         ELSE LET t == CHOOSE x \in FreeTimers(c.tm) : \A y \in FreeTimers(c.tm) : x <= y
              IN  [c EXCEPT !.s.debouncing = TRUE,
                            !.s.pause_timer = t,
                            !.tm[t] = [phase |-> "waiting", cancelled |-> FALSE,
                                       interrupted |-> FALSE]]
    ELSE c

\* The progress rules with the resume rule tried before credits detection.
PlaybackProgress_ResumeFirst(c, body) ==
    LET position_ticks == Get(body, "PlaybackPositionTicks", 0)
        c1 == [c EXCEPT !.s.last_position_ticks = position_ticks]
        c2 == CreditsReset(c1, position_ticks)
    IN  IF ~Get(body, "IsPaused", FALSE) /\ (c2.s.debouncing \/ c2.s.state # "playing")
        THEN Resume(c2)
        ELSE IF CreditsReached(c2.s, position_ticks) THEN MediaEnd(c2)
        ELSE IF ~Get(body, "IsPaused", FALSE) THEN Resume(c2)
        ELSE PauseCandidate(c2)

PlaybackProgress(c, body) ==
    LET position_ticks == Get(body, "PlaybackPositionTicks", 0)
        c1 == [c EXCEPT !.s.last_position_ticks = position_ticks]
        c2 == CreditsReset(c1, position_ticks)
    IN  IF CreditsReached(c2.s, position_ticks) THEN MediaEnd(c2)
        ELSE IF ~Get(body, "IsPaused", FALSE) THEN Resume(c2)
        ELSE PauseCandidate(c2)

Dispatch(c, body) ==
    LET notification_type == Get(body, "NotificationType", "")
    IN  IF notification_type = "PlaybackStart" THEN PlaybackStart(c, body)
        ELSE IF notification_type = "PlaybackStop" THEN PlaybackStop(c, body)
        ELSE IF notification_type # "PlaybackProgress" THEN c
        ELSE PlaybackProgress(c, body)

\* The early returns without the allow-list test.
Dropped_IdOnly(body) == Get(body, "DeviceId", "") = ""

\* The early returns before the lock is taken.
Dropped(body) ==
    \/ Get(body, "DeviceId", "") = ""
    \/ /\ ALLOWED_DEVICES # {}
       /\ Lower(Strip(Get(body, "DeviceName", <<>>))) \notin ALLOWED_DEVICES

\* History: the records that should supersede a pending pause candidate.
Supersedes(s, body) ==
    \/ Get(body, "NotificationType", "") \in {"PlaybackStart", "PlaybackStop"}
    \/ Get(body, "NotificationType", "") = "PlaybackProgress" /\ ~Get(body, "IsPaused", FALSE)
    \/ IsNewItem(s, body)

MarkInterrupted(tm) ==
    [t \in TimerIds |-> IF tm[t].phase = "none" THEN tm[t]
                        ELSE [tm[t] EXCEPT !.interrupted = TRUE]]

\* What process_event finds under device_id when it takes the lock: whether a
\* session exists, and its state and flags before the record changes them.
Found(d) ==
    IF d \in DOMAIN sessions
    THEN [exists |-> TRUE, state |-> sessions[d].state,
          debouncing |-> sessions[d].debouncing,
          media_end_emitted |-> sessions[d].media_end_emitted]
    ELSE [exists |-> FALSE, state |-> "idle", debouncing |-> FALSE,
          media_end_emitted |-> FALSE]

\* sessions.get(device_id), or a new Session
GetOrCreate(d) == IF d \in DOMAIN sessions THEN sessions[d] ELSE Session(d)

process_event(body) ==
    LET device_id == Get(body, "DeviceId", "")
    IN  IF Dropped(body)
        THEN /\ lastOp' = [op |-> "dropped", did |-> device_id, body |-> body,
                           found |-> Found(device_id), timer |-> NoTimer]
             /\ lastEmit' = <<>>
             /\ UNCHANGED <<ALLOWED_DEVICES, sessions, timers>>
        ELSE LET s0 == GetOrCreate(device_id)
                 c0 == [s |-> UpdateMetadata(s0, body),
                        tm |-> IF Supersedes(s0, body)
                               THEN MarkInterrupted(timers[device_id])
                               ELSE timers[device_id],
                        out |-> <<>>,
                        blocked |-> FALSE]
             IN  \E c \in {Dispatch(NewItem(c0, body), body)} :
                 /\ ~c.blocked
                 /\ sessions' = [d \in DOMAIN sessions \cup {device_id} |->
                                    IF d = device_id THEN c.s ELSE sessions[d]]
                 /\ timers' = [timers EXCEPT ![device_id] = c.tm]
                 /\ lastEmit' = c.out
                 /\ lastOp' = [op |-> "process_event", did |-> device_id, body |-> body,
                               found |-> Found(device_id), timer |-> NoTimer]
                 /\ UNCHANGED ALLOWED_DEVICES

\* ------------------------------------------------------------ the timer

NoBody == [k \in {} |-> k]

\* Timer.run(): the wait is over and `finished` was not set; the thread goes on
\* to call _confirm_pause, which first has to take _lock.
timer_expire(d, t) ==
    /\ timers[d][t].phase = "waiting"
    /\ timers' = [timers EXCEPT ![d][t].phase = "expired"]
    /\ lastEmit' = <<>>
    /\ lastOp' = [op |-> "timer_expire", did |-> d, body |-> NoBody, found |-> Found(d),
                  timer |-> timers[d][t]]
    /\ UNCHANGED <<ALLOWED_DEVICES, sessions>>

\* _confirm_pause without the re-check of the flag.
ConfirmPause_NoRecheck(c) ==
    emit("pause", [c EXCEPT !.s.debouncing = FALSE,
                            !.s.pause_timer = None,
                            !.s.state = "paused"])

\* The body of _confirm_pause, under _lock.
ConfirmPause(c) ==
    IF c.s.debouncing
    THEN emit("pause", [c EXCEPT !.s.debouncing = FALSE,
                                 !.s.pause_timer = None,
                                 !.s.state = "paused"])
    ELSE c

\* _confirm_pause looking up a session other than the one its timer was armed
\* for (the closure not binding did at definition time).
confirm_pause_AnyDevice(d, t) ==
    /\ timers[d][t].phase = "expired"
    /\ \E o \in DOMAIN sessions :
          LET c == ConfirmPause([s |-> sessions[o], tm |-> timers[o], out |-> <<>>,
                                 blocked |-> FALSE])
          IN  /\ sessions' = [sessions EXCEPT ![o] = c.s]
              /\ lastEmit' = c.out
    /\ timers' = [timers EXCEPT ![d][t] = NoTimer]
    /\ lastOp' = [op |-> "_confirm_pause", did |-> d, body |-> NoBody, found |-> Found(d),
                  timer |-> timers[d][t]]
    /\ UNCHANGED ALLOWED_DEVICES

\* _confirm_pause(did) called by Timer thread t; the thread ends afterwards.
confirm_pause(d, t) ==
    /\ timers[d][t].phase = "expired"
    /\ IF d \in DOMAIN sessions
       THEN LET c == ConfirmPause([s |-> sessions[d], tm |-> timers[d], out |-> <<>>,
                                   blocked |-> FALSE])
            IN  /\ sessions' = [sessions EXCEPT ![d] = c.s]
                /\ lastEmit' = c.out
       ELSE /\ UNCHANGED sessions
            /\ lastEmit' = <<>>
    /\ timers' = [timers EXCEPT ![d][t] = NoTimer]
    /\ lastOp' = [op |-> "_confirm_pause", did |-> d, body |-> NoBody, found |-> Found(d),
                  timer |-> timers[d][t]]
    /\ UNCHANGED ALLOWED_DEVICES

\* ---------------------------------------------------------------- inputs

DeviceIds == {"d1", "d2"}

\* The display name each device reports.
NameOf(d) == IF d = "d1" THEN <<"T", "V", " ">> ELSE <<" ", "P", "c">>

\* ALLOWED_DEVICES_RAW: unset, or "tV ,,pc".
RawChoices == {<<>>, <<"t", "V", " ", ",", ",", "p", "c">>}

NotificationTypes == {"PlaybackStart", "PlaybackStop", "PlaybackProgress", "SessionStart"}

ItemIds == {"i1", "i2"}

Positions == {560000, 570000, 571000}

Body(type, d, name, item, paused, position, run_time) ==
    [NotificationType |-> type, DeviceId |-> d, DeviceName |-> name,
     ClientName |-> "Web", Name |-> "Movie", ItemType |-> "Movie", ItemId |-> item,
     IsPaused |-> paused, PlaybackPositionTicks |-> position, RunTimeTicks |-> run_time]

Without(body, keys) == [k \in DOMAIN body \ keys |-> body[k]]

\* Full records from one device.
CoreBodies ==
    {Body("PlaybackProgress", "d1", NameOf("d1"), item, paused, position, 600000) :
        item \in ItemIds, paused \in BOOLEAN, position \in Positions}
    \cup {Body(type, "d1", NameOf("d1"), item, FALSE, position, 600000) :
            type \in NotificationTypes \ {"PlaybackProgress"},
            item \in ItemIds, position \in {560000, 571000}}

\* Progress records that carry no item identifier and no run length.
BareBodies ==
    {Without(Body("PlaybackProgress", "d1", NameOf("d1"), "", paused, position, 0),
             {"ItemId", "RunTimeTicks"}) :
        paused \in BOOLEAN, position \in Positions}

\* Records the filter is about: no device identifier, an empty one, no device
\* name, a name outside the allow-list.
OddBodies ==
    {Without(Body(type, "d1", NameOf("d1"), "i1", FALSE, 571000, 600000), {"DeviceId"}) :
        type \in {"PlaybackStart"}}
    \cup {Body("PlaybackProgress", "", NameOf("d1"), "i1", FALSE, 560000, 600000)}
    \cup {Without(Body("PlaybackProgress", "d1", <<>>, "i2", TRUE, 560000, 600000),
                  {"DeviceName"})}
    \cup {Body(type, "d1", <<"M">>, "i1", FALSE, 560000, 600000) :
            type \in {"PlaybackStart", "PlaybackProgress"}}

Bodies == CoreBodies \cup BareBodies \cup OddBodies

\* ------------------------------------------------------------- histories

HasEvent(out, event) == \E i \in 1..Len(out) : out[i].event = event

EmittedFor(out, d) == \E i \in 1..Len(out) : out[i].did = d

\* The step just taken processed (did not drop) a record of device d.
Processed(d) == lastOp'.op = "process_event" /\ lastOp'.did = d

\* ... and it was a PlaybackProgress whose position is below the credits
\* threshold of the run length the session now has.
BelowThreshold(d) ==
    /\ Get(lastOp'.body, "NotificationType", "") = "PlaybackProgress"
    /\ sessions'[d].run_time_ticks > 0
    /\ ~PctAtLeast(Get(lastOp'.body, "PlaybackPositionTicks", 0),
                   sessions'[d].run_time_ticks, CREDITS_THRESHOLD_PCT)

\* ended[d].ever: a media_end has been emitted for d.  open: one has been, and
\* since then the record's item identifier has not changed and no progress below
\* the threshold has arrived.  openStart: likewise, and no PlaybackStart either.
\* A record that does one of these and then emits media_end leaves them TRUE.
ResetsOpen(d) == Processed(d) /\ (IsNewItem(GetOrCreate(d), lastOp'.body) \/ BelowThreshold(d))

ResetsOpenStart(d) ==
    \/ ResetsOpen(d)
    \/ Processed(d) /\ Get(lastOp'.body, "NotificationType", "") = "PlaybackStart"

EndsNow(d) == Processed(d) /\ HasEvent(lastEmit', "media_end")

EndedAfter ==
    [d \in DOMAIN ended |->
        [ever |-> ended[d].ever \/ EndsNow(d),
         open |-> EndsNow(d) \/ (ended[d].open /\ ~ResetsOpen(d)),
         openStart |-> EndsNow(d) \/ (ended[d].openStart /\ ~ResetsOpenStart(d))]]

\* run[d].plays: the `play` events emitted in the current run of consecutive
\* PlaybackProgress records with IsPaused false received from d (dropped records
\* end a run too).  sinceEnd: those emitted since the run's last media_end.
InRun(body) ==
    Get(body, "NotificationType", "") = "PlaybackProgress" /\ ~Get(body, "IsPaused", FALSE)

Bump(n) == IF n < MaxPlays THEN n + 1 ELSE n

RunAfter ==
    [d \in DOMAIN run |->
        IF lastOp'.op \in {"process_event", "dropped"} /\ lastOp'.did = d
        THEN IF ~InRun(lastOp'.body) \/ lastOp'.op = "dropped"
             THEN [plays |-> 0, sinceEnd |-> 0]
             ELSE IF HasEvent(lastEmit', "play")
                  THEN [plays |-> Bump(run[d].plays), sinceEnd |-> Bump(run[d].sinceEnd)]
             ELSE IF HasEvent(lastEmit', "media_end")
                  THEN [run[d] EXCEPT !.sinceEnd = 0]
             ELSE run[d]
        ELSE run[d]]

\* ----------------------------------------------------------- specification

\* The state after the module is loaded, whatever HA_WEBHOOK_URL is.
Loaded ==
    /\ ALLOWED_DEVICES \in {ParseAllowed(raw) : raw \in RawChoices}
    /\ sessions = [d \in {} |-> Session(d)]
    /\ timers = [d \in DeviceIds |-> [t \in TimerIds |-> NoTimer]]
    /\ lastEmit = <<>>
    /\ lastOp = [op |-> "init", did |-> "", body |-> NoBody, found |-> Found(""),
                 timer |-> NoTimer]
    /\ ended = [d \in DeviceIds |-> [ever |-> FALSE, open |-> FALSE, openStart |-> FALSE]]
    /\ run = [d \in DeviceIds |-> [plays |-> 0, sinceEnd |-> 0]]
    /\ stopped = [d \in DeviceIds |-> {}]
    /\ pausing = [d \in DeviceIds |-> [armed |-> FALSE, pauses |-> 0, afterPause |-> FALSE]]
    /\ notify = [i \in NotifyIds |-> NoThread]

\* HA_WEBHOOK_URL not set in the environment.
Init == Loaded /\ HA_WEBHOOK_URL = ""

Receive == \E body \in Bodies : process_event(body)

Expire == \E d \in DeviceIds, t \in TimerIds : timer_expire(d, t)

Fire == \E d \in DeviceIds, t \in TimerIds : confirm_pause(d, t)

\* One device, every kind of record.
Quiet == UNCHANGED <<ended, run, stopped, pausing, HA_WEBHOOK_URL, notify>>

Next ==
    \/ Receive /\ Quiet
    \/ Expire /\ Quiet
    \/ Fire /\ Quiet

Spec == Init /\ [][Next]_vars

\* The same, with the media_end history.
TrackEnded == ended' = EndedAfter /\ UNCHANGED <<run, stopped, pausing, HA_WEBHOOK_URL, notify>>

NextEnded ==
    \/ Receive /\ TrackEnded
    \/ Expire /\ TrackEnded
    \/ Fire /\ TrackEnded

SpecEnded == Init /\ [][NextEnded]_vars

\* The same, with the history of runs of non-paused progress records.
TrackRun == run' = RunAfter /\ UNCHANGED <<ended, stopped, pausing, HA_WEBHOOK_URL, notify>>

NextRun ==
    \/ Receive /\ TrackRun
    \/ Expire /\ TrackRun
    \/ Fire /\ TrackRun

SpecRun == Init /\ [][NextRun]_vars

\* Two devices, each sending complete records about one item.
TwoBodies ==
    {Body("PlaybackProgress", d, NameOf(d), "i1", paused, 560000, 600000) :
        d \in DeviceIds, paused \in BOOLEAN}
    \cup {Body(type, d, NameOf(d), "i1", FALSE, 571000, 600000) :
            type \in {"PlaybackStart", "PlaybackStop", "PlaybackProgress"}, d \in DeviceIds}

LiveTimers(d) == {t \in TimerIds : timers[d][t].phase # "none"}

LiveAtMost(n) == \A d \in DeviceIds : Cardinality(LiveTimers(d)) <= n

ReceiveTwo == \E body \in TwoBodies : process_event(body)

BoundedTwo == LiveAtMost(MaxTimersTwo)' /\ Quiet

NextTwo ==
    \/ ReceiveTwo /\ BoundedTwo
    \/ Expire /\ BoundedTwo
    \/ Fire /\ BoundedTwo

SpecTwo == Init /\ [][NextTwo]_vars

\* ------------------------------------------------------------------ claims

\* C1: a `pause` is emitted only by the callback of a timer armed by a paused
\* PlaybackProgress such that, between that arming and the emission, no
\* non-paused PlaybackProgress, no item change, no PlaybackStart and no
\* PlaybackStop was processed for the device.
C1_PauseOnlyFromUnsupersededTimer ==
    HasEvent(lastEmit, "pause") =>
        /\ lastOp.op = "_confirm_pause"
        /\ ~lastOp.timer.interrupted

\* The last step processed (did not drop) a record of this type.
ProcessedType(type) ==
    lastOp.op = "process_event" /\ Get(lastOp.body, "NotificationType", "") = type

\* The last step processed a PlaybackProgress with IsPaused as given.
ProcessedProgress(paused) ==
    ProcessedType("PlaybackProgress") /\ Get(lastOp.body, "IsPaused", FALSE) = paused

\* The position of the record just processed is at or above the credits
\* threshold of the session's run length.
InCredits ==
    /\ sessions[lastOp.did].run_time_ticks > 0
    /\ PctAtLeast(Get(lastOp.body, "PlaybackPositionTicks", 0),
                  sessions[lastOp.did].run_time_ticks, CREDITS_THRESHOLD_PCT)

\* C2 as stated: a non-paused PlaybackProgress processed while the session is
\* debouncing emits no `pause` and no `play`, and the state remains `playing`.
C2_Original ==
    (ProcessedProgress(FALSE) /\ lastOp.found.debouncing) =>
        /\ ~HasEvent(lastEmit, "pause")
        /\ ~HasEvent(lastEmit, "play")
        /\ sessions[lastOp.did].state = "playing"

\* C2 amended: a non-paused PlaybackProgress processed while the session is
\* debouncing emits no `pause` and no `play`; the state remains `playing` when
\* the position is below the credits threshold (or the run length is 0);
\* otherwise the record emits `media_end` and the state becomes `idle`.
C2_ResumeWhileDebouncing ==
    (ProcessedProgress(FALSE) /\ lastOp.found.debouncing) =>
        /\ ~HasEvent(lastEmit, "pause")
        /\ ~HasEvent(lastEmit, "play")
        /\ ~InCredits => lastEmit = <<>> /\ sessions[lastOp.did].state = "playing"
        /\ InCredits => HasEvent(lastEmit, "media_end") /\ sessions[lastOp.did].state = "idle"

C2_Witness ==
    /\ ProcessedProgress(FALSE)
    /\ lastOp.found.debouncing
    /\ ~InCredits
    /\ \A t \in TimerIds : timers[lastOp.did][t].phase = "none"
    /\ lastEmit = <<>>
    /\ sessions[lastOp.did].state = "playing"
    /\ ~sessions[lastOp.did].debouncing

\* The step just taken processed a PlaybackProgress of device d at this position,
\* the session's run length being 600000.
ProgressAt(d, position) ==
    /\ Processed(d)
    /\ Get(lastOp'.body, "NotificationType", "") = "PlaybackProgress"
    /\ Get(lastOp'.body, "PlaybackPositionTicks", 0) = position
    /\ sessions'[d].run_time_ticks = 600000

OneMediaEnd(out) == Len(out) = 1 /\ out[1].event = "media_end"

\* C3 as stated (threshold 95, run length 600000): a progress at 560000 emits
\* no `media_end`; one at 571000 emits exactly one; after a `media_end` no
\* further one is emitted until the item identifier changes or a progress
\* arrives with its position below the threshold.
C3_Original ==
    [][\A d \in DeviceIds :
          LET open == ended[d].open /\ ~ResetsOpen(d)
          IN  /\ ProgressAt(d, 560000) => ~HasEvent(lastEmit', "media_end")
              /\ ProgressAt(d, 571000) /\ ~open => OneMediaEnd(lastEmit')
              /\ EndsNow(d) => ~open]_vars

\* C3 amended: the same, where a PlaybackStart too ends the suppression.
C3_MediaEndOncePerPass ==
    [][\A d \in DeviceIds :
          LET open == ended[d].openStart /\ ~ResetsOpenStart(d)
          IN  /\ ProgressAt(d, 560000) => ~HasEvent(lastEmit', "media_end")
              /\ ProgressAt(d, 571000) /\ ~open => OneMediaEnd(lastEmit')
              /\ EndsNow(d) => ~open]_vars

\* A progress at 571000 of 600000 after a media_end that nothing has reset: no
\* second media_end.
C3_Witness ==
    /\ ProcessedType("PlaybackProgress")
    /\ Get(lastOp.body, "PlaybackPositionTicks", 0) = 571000
    /\ sessions[lastOp.did].run_time_ticks = 600000
    /\ ended[lastOp.did].openStart
    /\ lastEmit = <<>>

\* The step just taken processed a non-paused PlaybackProgress of device d
\* whose position is at or above the credits threshold.
ResumeInCredits(d) ==
    /\ Processed(d)
    /\ InRun(lastOp'.body)
    /\ sessions'[d].run_time_ticks > 0
    /\ PctAtLeast(Get(lastOp'.body, "PlaybackPositionTicks", 0),
                  sessions'[d].run_time_ticks, CREDITS_THRESHOLD_PCT)

\* C4 as stated: once a `media_end` has been emitted for a device, every later
\* non-paused PlaybackProgress at or above the threshold emits nothing and
\* leaves the state `idle`.
C4_Original ==
    [][\A d \in DeviceIds :
          ResumeInCredits(d) /\ ended[d].ever =>
              lastEmit' = <<>> /\ sessions'[d].state = "idle"]_vars

\* C4 amended: ... as long as no item change (that of the record included), no
\* PlaybackStart and no progress below the threshold has come since that
\* `media_end`.
C4_PlaySuppressedInCredits ==
    [][\A d \in DeviceIds :
          ResumeInCredits(d) /\ ended[d].openStart /\ ~ResetsOpenStart(d) =>
              lastEmit' = <<>> /\ sessions'[d].state = "idle"]_vars

C4_Witness ==
    /\ ProcessedProgress(FALSE)
    /\ InCredits
    /\ lastOp.found.media_end_emitted
    /\ ended[lastOp.did].openStart
    /\ lastEmit = <<>>
    /\ sessions[lastOp.did].state = "idle"

\* C5: from every reachable session state, processing a PlaybackStart emits
\* exactly one `PlaybackStart`, and afterwards state = playing,
\* media_end_emitted = false, the debounce flag is false and no timer handle is
\* held.
C5_StartResets ==
    ProcessedType("PlaybackStart") =>
        /\ Len(lastEmit) = 1
        /\ lastEmit[1].event = "PlaybackStart"
        /\ sessions[lastOp.did].state = "playing"
        /\ ~sessions[lastOp.did].media_end_emitted
        /\ ~sessions[lastOp.did].debouncing
        /\ sessions[lastOp.did].pause_timer = None

\* A PlaybackStart that found the session debouncing.
C5_Witness ==
    /\ ProcessedType("PlaybackStart")
    /\ lastOp.found.exists
    /\ lastOp.found.debouncing
    /\ sessions[lastOp.did].state = "playing"

\* The last step received a record (processed or dropped).
Received == lastOp.op \in {"process_event", "dropped"}

NoDeviceId(body) == "DeviceId" \notin DOMAIN body \/ body["DeviceId"] = ""

\* The record's device name, compared case-insensitively, is not in the
\* configured allow-list.
NotAllowedAsStated(body) ==
    ALLOWED_DEVICES # {} /\ Lower(Get(body, "DeviceName", <<>>)) \notin ALLOWED_DEVICES

\* ... compared case-insensitively after removing surrounding whitespace.
NotAllowedStripped(body) ==
    ALLOWED_DEVICES # {} /\ Lower(Strip(Get(body, "DeviceName", <<>>))) \notin ALLOWED_DEVICES

\* C6 as stated: a record without a device identifier, or (a non-empty
\* allow-list being configured) whose device name is not, case-insensitively,
\* in the allow-list, creates no Session, changes no Session and emits nothing.
C6_Original ==
    [][(Received' /\ (NoDeviceId(lastOp'.body) \/ NotAllowedAsStated(lastOp'.body))) =>
          /\ sessions' = sessions
          /\ timers' = timers
          /\ lastEmit' = <<>>]_vars

\* C6 amended: the allow-list test is made on the device name with surrounding
\* whitespace removed, case-insensitively.
C6_FilteredHasNoEffect ==
    [][(Received' /\ (NoDeviceId(lastOp'.body) \/ NotAllowedStripped(lastOp'.body))) =>
          /\ sessions' = sessions
          /\ timers' = timers
          /\ lastEmit' = <<>>]_vars

\* A record with a name outside the allow-list arrived for a device whose
\* session exists and is debouncing; the session is still debouncing.
C6_Witness ==
    /\ Received
    /\ ~NoDeviceId(lastOp.body)
    /\ NotAllowedStripped(lastOp.body)
    /\ Get(lastOp.body, "NotificationType", "") = "PlaybackStart"
    /\ lastOp.found.exists
    /\ lastOp.found.debouncing
    /\ sessions[lastOp.did].debouncing
    /\ lastEmit = <<>>

\* `play` comes only from a non-paused PlaybackProgress that found the state
\* `paused` or `idle`.
PlayOnlyOnResume ==
    HasEvent(lastEmit, "play") =>
        /\ ProcessedProgress(FALSE)
        /\ lastOp.found.state \in {"paused", "idle"}
        /\ Len(lastEmit) = 1

\* C7 as stated: `play` is emitted only by a non-paused PlaybackProgress that
\* finds the state `paused` or `idle`, never by a record that finds it
\* `playing`, so a run of consecutive non-paused progress records yields at
\* most one `play`.
C7_Original ==
    /\ PlayOnlyOnResume
    /\ \A d \in DeviceIds : run[d].plays <= 1

\* C7 amended: ... yields at most one `play` after each `media_end` of the run
\* (a run that enters the credits emits `media_end`, which sets the state
\* `idle`, and a later record of the run below the threshold emits `play`
\* again).
C7_PlayOncePerResume ==
    /\ PlayOnlyOnResume
    /\ \A d \in DeviceIds : run[d].sinceEnd <= 1

\* The second non-paused progress of a run: it found the state `playing` and
\* emitted nothing.
C7_Witness ==
    /\ ProcessedProgress(FALSE)
    /\ lastOp.found.state = "playing"
    /\ ~lastOp.found.debouncing
    /\ run[lastOp.did].plays = 1
    /\ lastEmit = <<>>
    /\ sessions[lastOp.did].state = "playing"

\* C8: a record of device A, and the callback of one of A's timers, leave
\* every other device's Session (and its absence) and timers as they were and
\* emit nothing for another device.
C8_OtherDevicesUntouched ==
    [][\A d \in DeviceIds :
          lastOp'.did # d =>
              /\ (d \in DOMAIN sessions') = (d \in DOMAIN sessions)
              /\ d \in DOMAIN sessions => sessions'[d] = sessions[d]
              /\ timers'[d] = timers[d]
              /\ ~EmittedFor(lastEmit', d)]_vars

\* d1's timer callback commits a pause while d2 is debouncing.
C8_Witness ==
    /\ lastOp.op = "_confirm_pause"
    /\ lastOp.did = "d1"
    /\ HasEvent(lastEmit, "pause")
    /\ EmittedFor(lastEmit, "d1")
    /\ "d2" \in DOMAIN sessions
    /\ sessions["d2"].debouncing
    /\ sessions["d2"].state = "playing"

\* The timers of d that have been armed, have not run their callback and have
\* not been cancelled.
Pending(d) == {t \in TimerIds : timers[d][t].phase # "none" /\ ~timers[d][t].cancelled}

\* C9: for every Session, a pending (armed, not fired, not cancelled) debounce
\* timer exists if and only if the debounce-in-progress flag is true.
C9_PendingIffDebouncing ==
    \A d \in DOMAIN sessions : (Pending(d) # {}) <=> sessions[d].debouncing

\* C10: at most one debounce timer is outstanding (armed and not cancelled)
\* per Session.
C10_AtMostOneOutstanding ==
    \A d \in DOMAIN sessions : Cardinality(Pending(d)) <= 1

\* C11: whenever media_end_emitted is true after a step, either the step set it
\* (it emitted `media_end`) or the flag was true before and the stored item
\* identifier is the one it was then; so while the flag is true the item
\* identifier is the one it had when the flag was last set.  A record that
\* changes the stored item identifier leaves the flag false unless its own
\* dispatch rule (credits detection) sets it again.
C11_FlagBoundToItem ==
    [][\A d \in DOMAIN sessions' :
          LET before == GetOrCreate(d)
          IN  /\ sessions'[d].media_end_emitted =>
                    \/ EndsNow(d)
                    \/ before.media_end_emitted /\ sessions'[d].item_id = before.item_id
              /\ sessions'[d].item_id # before.item_id =>
                    /\ Processed(d)
                    /\ ~NewItem([s |-> before, tm |-> timers[d], out |-> <<>>,
                                 blocked |-> FALSE], lastOp'.body).s.media_end_emitted]_vars

\* A paused progress in the credits found media_end_emitted true and emitted
\* `media_end` again: its new item identifier had cleared the flag first.
C11_Witness ==
    /\ ProcessedProgress(TRUE)
    /\ lastOp.found.media_end_emitted
    /\ InCredits
    /\ OneMediaEnd(lastEmit)
    /\ sessions[lastOp.did].media_end_emitted
    /\ sessions[lastOp.did].item_id = Get(lastOp.body, "ItemId", "")

\* The record's NotificationType is none of the three the classifier handles.
UnknownType(body) ==
    Get(body, "NotificationType", "") \notin
        {"PlaybackStart", "PlaybackStop", "PlaybackProgress"}

\* The Timer threads of d as the program has them (without the history field).
TimerThreads(tm) == [t \in TimerIds |-> [phase |-> tm[t].phase, cancelled |-> tm[t].cancelled]]

\* C12: a record whose NotificationType is not PlaybackStart, PlaybackStop or
\* PlaybackProgress emits no event, creates no Session, changes no Session
\* field and cancels no pending debounce.
C12_UnknownTypeIgnored ==
    [][(Received' /\ UnknownType(lastOp'.body)) =>
          /\ lastEmit' = <<>>
          /\ sessions' = sessions
          /\ \A d \in DeviceIds : TimerThreads(timers'[d]) = TimerThreads(timers[d])]_vars

\* ------------------------------------------------- records and metadata

\* The keys of the five metadata fields.
MetadataKeys == {"DeviceName", "ClientName", "Name", "ItemType", "RunTimeTicks"}

\* The record with every metadata key present and empty (zero for the run
\* length).
Blank(body) ==
    [body EXCEPT !.DeviceName = <<>>, !.ClientName = "", !.Name = "", !.ItemType = "",
                 !.RunTimeTicks = 0]

\* Progress records of one device about one item: complete, with the metadata
\* keys empty, and with the metadata keys missing.
MetaBodies ==
    LET full == {Body("PlaybackProgress", "d1", NameOf("d1"), "i1", paused, 560000, 600000) :
                    paused \in BOOLEAN}
    IN  full \cup {Blank(body) : body \in full}
             \cup {Without(body, MetadataKeys) : body \in full}

ReceiveMeta == \E body \in MetaBodies : process_event(body)

NextMeta ==
    \/ ReceiveMeta /\ Quiet
    \/ Expire /\ Quiet
    \/ Fire /\ Quiet

SpecMeta == Init /\ [][NextMeta]_vars

\* The value a metadata field has after a record, as the claim has it: the
\* record's value when the key is present and the value is not `empty`, the
\* previous value otherwise.
Kept(body, key, empty, previous) ==
    IF key \in DOMAIN body /\ body[key] # empty THEN body[key] ELSE previous

\* C13: each metadata field of the Session (device name, client name, media
\* name, media type, run length) is overwritten by a record only with a
\* non-empty (non-zero) value the record carries; a record that omits the field
\* or carries an empty value leaves the previous value.
C13_MetadataKeepsPrevious ==
    [][\A d \in DeviceIds :
          Processed(d) =>
              LET before == GetOrCreate(d)
                  body == lastOp'.body
              IN  /\ sessions'[d].device_name = Kept(body, "DeviceName", <<>>, before.device_name)
                  /\ sessions'[d].client_name = Kept(body, "ClientName", "", before.client_name)
                  /\ sessions'[d].media_name = Kept(body, "Name", "", before.media_name)
                  /\ sessions'[d].media_type = Kept(body, "ItemType", "", before.media_type)
                  /\ sessions'[d].run_time_ticks =
                         Kept(body, "RunTimeTicks", 0, before.run_time_ticks)]_vars

\* ------------------------------------------------ timers that met a stop

\* stopped[d]: the Timer threads of d that were alive when a PlaybackStop of d
\* was processed and are still alive (a thread past its finished test that the
\* stop cancelled too late, or one whose handle the session no longer holds).
\* A thread armed later under the same identifier is not one of them: it has
\* not been interrupted.
StoppedAfter ==
    [d \in DeviceIds |->
        IF Processed(d) /\ Get(lastOp'.body, "NotificationType", "") = "PlaybackStop"
        THEN {t \in TimerIds : timers'[d][t].phase # "none"}
        ELSE {t \in stopped[d] : timers'[d][t].phase # "none" /\ timers'[d][t].interrupted}]

TrackStopped == stopped' = StoppedAfter /\ UNCHANGED <<ended, run, pausing, HA_WEBHOOK_URL, notify>>

NextStopped ==
    \/ Receive /\ TrackStopped
    \/ Expire /\ TrackStopped
    \/ Fire /\ TrackStopped

SpecStopped == Init /\ [][NextStopped]_vars

\* The step just taken was the callback of timer t of device d, and it emitted
\* `pause`.
PauseCommittedBy(d, t) ==
    /\ lastOp'.op = "_confirm_pause"
    /\ lastOp'.did = d
    /\ timers[d][t].phase = "expired"
    /\ timers'[d][t].phase = "none"
    /\ HasEvent(lastEmit', "pause")

\* C14: from every reachable session state, processing a PlaybackStop emits
\* exactly one `PlaybackStop` and leaves state = idle, the debounce flag false
\* and no timer handle; and no `pause` is committed by a timer that was armed
\* before a PlaybackStop processed since.
C14_StopResets ==
    [][/\ \A d \in DeviceIds :
             (Processed(d) /\ Get(lastOp'.body, "NotificationType", "") = "PlaybackStop") =>
                 /\ Len(lastEmit') = 1
                 /\ lastEmit'[1].event = "PlaybackStop"
                 /\ sessions'[d].state = "idle"
                 /\ ~sessions'[d].debouncing
                 /\ sessions'[d].pause_timer = None
       /\ \A d \in DeviceIds, t \in TimerIds :
             PauseCommittedBy(d, t) => t \notin stopped[d]]_vars

\* --------------------------------------------------------------- delivery

\* The HA_WEBHOOK_URL of the environment: unset, or an endpoint.
UrlChoices == {"", "http://ha/api/webhook/jellyfin"}

InitNotify == Loaded /\ HA_WEBHOOK_URL \in UrlChoices

NotifyFree(nt) == {i \in NotifyIds : nt[i].status = "none"}

\* The last statement of emit(): a daemon thread is started for each payload
\* (a step emits at most one).
StartNotify(nt, out) ==
    IF out = <<>> THEN nt
    ELSE LET i == CHOOSE x \in NotifyFree(nt) : \A y \in NotifyFree(nt) : x <= y
         IN  [nt EXCEPT ![i] = [status |-> "running", payload |-> out[1]]]

\* How one call of _notify_ha can end: the early return when no endpoint is
\* configured; otherwise urlopen returns, or raises and the exception is logged.
Outcomes == IF HA_WEBHOOK_URL = "" THEN {"dropped"} ELSE {"sent", "failed"}

\* _notify_ha rolling the session back when the POST fails.
notify_ha_UndoOnFailure(i) ==
    /\ notify[i].status = "running"
    /\ \E outcome \in Outcomes :
          /\ lastOp' = [op |-> "_notify_ha", did |-> notify[i].payload.did, body |-> NoBody,
                        found |-> Found(notify[i].payload.did), timer |-> NoTimer,
                        payload |-> notify[i].payload, outcome |-> outcome]
          /\ sessions' = IF outcome = "failed"
                         THEN [sessions EXCEPT ![notify[i].payload.did].state = "idle"]
                         ELSE sessions
    /\ notify' = [notify EXCEPT ![i] = NoThread]
    /\ lastEmit' = <<>>
    /\ UNCHANGED <<ALLOWED_DEVICES, HA_WEBHOOK_URL, timers>>

\* _notify_ha(payload) run by thread i, which ends afterwards.
notify_ha(i) ==
    /\ notify[i].status = "running"
    /\ \E outcome \in Outcomes :
          lastOp' = [op |-> "_notify_ha", did |-> notify[i].payload.did, body |-> NoBody,
                     found |-> Found(notify[i].payload.did), timer |-> NoTimer,
                     payload |-> notify[i].payload, outcome |-> outcome]
    /\ notify' = [notify EXCEPT ![i] = NoThread]
    /\ lastEmit' = <<>>
    /\ UNCHANGED <<ALLOWED_DEVICES, HA_WEBHOOK_URL, sessions, timers>>

\* Complete records of one device about one item.
NotifyBodies ==
    {Body("PlaybackProgress", "d1", NameOf("d1"), "i1", paused, 560000, 600000) :
        paused \in BOOLEAN}
    \cup {Body(type, "d1", NameOf("d1"), "i1", FALSE, 571000, 600000) :
            type \in {"PlaybackStart", "PlaybackStop", "PlaybackProgress"}}

ReceiveNotify == \E body \in NotifyBodies : process_event(body)

Deliver == \E i \in NotifyIds : notify_ha(i)

\* A step that emits starts the delivery thread (and is not taken when that
\* would need more than MaxNotify threads, or leave more than MaxTimersTwo
\* timer threads alive).
Started ==
    /\ lastEmit' # <<>> => NotifyFree(notify) # {}
    /\ LiveAtMost(MaxTimersTwo)'
    /\ notify' = StartNotify(notify, lastEmit')
    /\ UNCHANGED <<ended, run, stopped, pausing, HA_WEBHOOK_URL>>

NextNotify ==
    \/ ReceiveNotify /\ Started
    \/ Expire /\ Started
    \/ Fire /\ Started
    \/ Deliver /\ UNCHANGED <<ended, run, stopped, pausing>>

\* One device, with the delivery threads.
SpecNotify == InitNotify /\ [][NextNotify]_vars

\* Thread i is delivering this payload.
Delivering(nt, i, payload) == nt[i].status = "running" /\ nt[i].payload = payload

\* C15: a delivery, whatever its outcome (sent, failed, dropped for want of an
\* endpoint), changes no Session and no timer and emits nothing; and a step
\* that emits completes with the delivery still outstanding, in a thread
\* started by that step.
C15_DeliveryHasNoEffect ==
    [][/\ lastOp'.op = "_notify_ha" =>
             /\ sessions' = sessions
             /\ timers' = timers
             /\ lastEmit' = <<>>
             /\ lastOp'.outcome \in {"sent", "failed", "dropped"}
             /\ lastOp'.outcome = "dropped" <=> HA_WEBHOOK_URL = ""
       /\ (lastOp'.op \in {"process_event", "_confirm_pause"} /\ lastEmit' # <<>>) =>
             /\ Len(lastEmit') = 1
             /\ \E i \in NotifyIds :
                   /\ ~Delivering(notify, i, lastEmit'[1])
                   /\ Delivering(notify', i, lastEmit'[1])]_vars

\* The delivery of a `pause` failed while a later record's `play` was already
\* being delivered; the session is as the classifier left it.
C15_Witness ==
    /\ lastOp.op = "_notify_ha"
    /\ lastOp.outcome = "failed"
    /\ lastOp.payload.event = "pause"
    /\ \E i \in NotifyIds : notify[i].status = "running" /\ notify[i].payload.event = "play"
    /\ sessions[lastOp.did].state = "playing"

\* ------------------------------------------------- the debounce, armed

\* The step just taken processed a record of d that armed the debounce: it
\* left the flag set, having found it clear or having cancelled it (new item)
\* first.
ArmsDebounce(d) ==
    /\ Processed(d)
    /\ sessions'[d].debouncing
    /\ ~GetOrCreate(d).debouncing \/ IsNewItem(GetOrCreate(d), lastOp'.body)

\* The step just taken was a timer callback of d that emitted `pause`.
CommitsPause(d) ==
    /\ lastOp'.op = "_confirm_pause"
    /\ lastOp'.did = d
    /\ HasEvent(lastEmit', "pause")

\* A `play` or `PlaybackStart` was emitted for d.
EmitsStart(d) ==
    \E i \in 1..Len(lastEmit') :
        lastEmit'[i].did = d /\ lastEmit'[i].event \in {"play", "PlaybackStart"}

\* pausing[d].armed: the debounce of d has been armed and no record of d has
\* been processed since.  pauses: the `pause` events emitted for d since then.
\* afterPause: a `pause` has been emitted for d, and no `play` or
\* `PlaybackStart` since.
PausingAfter ==
    [d \in DeviceIds |->
        [armed |-> IF Processed(d) THEN ArmsDebounce(d) ELSE pausing[d].armed,
         pauses |-> IF Processed(d) THEN 0
                    ELSE IF CommitsPause(d) /\ pausing[d].pauses < MaxPauses
                         THEN pausing[d].pauses + 1
                    ELSE pausing[d].pauses,
         afterPause |-> CommitsPause(d) \/ (pausing[d].afterPause /\ ~EmitsStart(d))]]

TrackPausing == pausing' = PausingAfter /\ UNCHANGED <<ended, run, stopped, HA_WEBHOOK_URL, notify>>

NextPausing ==
    \/ Receive /\ TrackPausing
    \/ Expire /\ TrackPausing
    \/ Fire /\ TrackPausing

\* One device, every kind of record, with the history of the debounce.
SpecPausing == Init /\ [][NextPausing]_vars

\* The timer threads run and get _lock: a thread whose wait is over goes on, and
\* a callback waiting for the lock gets it.  Records come as Jellyfin sends
\* them, with no fairness.
TimersRun ==
    \A d \in DeviceIds, t \in TimerIds :
        /\ WF_vars(timer_expire(d, t) /\ TrackPausing)
        /\ WF_vars(confirm_pause(d, t) /\ TrackPausing)

\* Complete records of one device: progress about either item, paused or not,
\* before the credits; and a progress in the credits, a start and a stop.
LiveBodies ==
    {Body("PlaybackProgress", "d1", NameOf("d1"), item, paused, 560000, 600000) :
        item \in ItemIds, paused \in BOOLEAN}
    \cup {Body(type, "d1", NameOf("d1"), "i1", FALSE, 571000, 600000) :
            type \in {"PlaybackStart", "PlaybackStop", "PlaybackProgress"}}

ReceiveLive == \E body \in LiveBodies : process_event(body)

NextLive ==
    \/ ReceiveLive /\ TrackPausing
    \/ Expire /\ TrackPausing
    \/ Fire /\ TrackPausing

SpecLive == Init /\ [][NextLive]_vars /\ TimersRun

\* The debounce armed for d has come to its end: its `pause` emitted once, the
\* session paused with no flag and no handle, no timer thread of d left.
PauseCommitted(d) ==
    /\ pausing[d].pauses = 1
    /\ sessions[d].state = "paused"
    /\ ~sessions[d].debouncing
    /\ sessions[d].pause_timer = None
    /\ LiveTimers(d) = {}

\* C16: once a paused PlaybackProgress has armed the debounce of a session,
\* either another record of the device is processed, or eventually the
\* callback has run, `pause` has been emitted exactly once and the session has
\* state = paused, the flag false and no timer handle; and as long as no record
\* is processed `pause` is emitted at most once, the session being paused from
\* then on.
C16_ArmedPauseCommits ==
    /\ \A d \in DeviceIds :
          pausing[d].armed ~> (~pausing[d].armed \/ PauseCommitted(d))
    /\ [](\A d \in DeviceIds :
             pausing[d].armed =>
                 /\ pausing[d].pauses <= 1
                 /\ pausing[d].pauses = 1 =>
                       /\ sessions[d].state = "paused"
                       /\ ~sessions[d].debouncing
                       /\ sessions[d].pause_timer = None)

\* The callback of the armed timer has committed the pause, no record having
\* come in between.
C16_Witness ==
    /\ lastOp.op = "_confirm_pause"
    /\ pausing[lastOp.did].armed
    /\ PauseCommitted(lastOp.did)
    /\ HasEvent(lastEmit, "pause")
    /\ ~lastOp.timer.cancelled

\* The step just taken processed a PlaybackProgress of d that meets the
\* credits-detection condition: the run length the session now has is positive,
\* the position is at or above the threshold (so the reset rule does not
\* apply), and media_end_emitted was false or the record's new item cleared it.
MeetsCredits(d) ==
    /\ Processed(d)
    /\ Get(lastOp'.body, "NotificationType", "") = "PlaybackProgress"
    /\ sessions'[d].run_time_ticks > 0
    /\ PctAtLeast(Get(lastOp'.body, "PlaybackPositionTicks", 0),
                  sessions'[d].run_time_ticks, CREDITS_THRESHOLD_PCT)
    /\ ~GetOrCreate(d).media_end_emitted \/ IsNewItem(GetOrCreate(d), lastOp'.body)

\* C17: a PlaybackProgress that meets the credits-detection condition emits
\* exactly `media_end` and nothing else, whatever IsPaused and the state
\* before; afterwards state = idle, media_end_emitted = true, the debounce flag
\* is false and no handle is held; no timer is armed.
C17_CreditsEmitOnlyMediaEnd ==
    [][\A d \in DeviceIds :
          MeetsCredits(d) =>
              /\ OneMediaEnd(lastEmit')
              /\ sessions'[d].state = "idle"
              /\ sessions'[d].media_end_emitted
              /\ ~sessions'[d].debouncing
              /\ sessions'[d].pause_timer = None
              /\ \A t \in TimerIds :
                    timers'[d][t].phase # "none" => timers[d][t].phase # "none"]_vars

\* A non-paused progress in the credits found the session paused and emitted
\* `media_end`, not `play`.
C17_Witness ==
    /\ ProcessedProgress(FALSE)
    /\ lastOp.found.state = "paused"
    /\ ~lastOp.found.media_end_emitted
    /\ InCredits
    /\ OneMediaEnd(lastEmit)
    /\ sessions[lastOp.did].state = "idle"

\* The step just taken processed a paused PlaybackProgress of d that changes no
\* item and triggers neither credits rule (reset or detection): the run length
\* is 0, or the position is below the threshold with media_end_emitted false,
\* or at or above it with media_end_emitted true.
PlainPausedSample(d) ==
    LET before == GetOrCreate(d)
        inCredits == PctAtLeast(Get(lastOp'.body, "PlaybackPositionTicks", 0),
                                sessions'[d].run_time_ticks, CREDITS_THRESHOLD_PCT)
    IN  /\ Processed(d)
        /\ Get(lastOp'.body, "NotificationType", "") = "PlaybackProgress"
        /\ Get(lastOp'.body, "IsPaused", FALSE)
        /\ ~IsNewItem(before, lastOp'.body)
        /\ sessions'[d].run_time_ticks > 0 => (inCredits <=> before.media_end_emitted)

\* C18: such a record, processed when the state is not `playing` or when a
\* debounce is in progress, emits nothing and leaves state, debounce flag,
\* timer handle and media_end_emitted as they were; no timer is started,
\* cancelled or restarted.
C18_PausedSampleIgnored ==
    [][\A d \in DeviceIds :
          LET before == GetOrCreate(d)
          IN  (PlainPausedSample(d) /\ (before.state # "playing" \/ before.debouncing)) =>
                  /\ lastEmit' = <<>>
                  /\ sessions'[d].state = before.state
                  /\ sessions'[d].debouncing = before.debouncing
                  /\ sessions'[d].pause_timer = before.pause_timer
                  /\ sessions'[d].media_end_emitted = before.media_end_emitted
                  /\ TimerThreads(timers'[d]) = TimerThreads(timers[d])]_vars

\* A second paused sample (one without ItemId) during a debounce: the timer
\* armed by the first is still waiting and still the session's handle.
C18_Witness ==
    /\ ProcessedProgress(TRUE)
    /\ "ItemId" \notin DOMAIN lastOp.body
    /\ lastOp.found.debouncing
    /\ lastOp.found.state = "playing"
    /\ lastEmit = <<>>
    /\ sessions[lastOp.did].debouncing
    /\ sessions[lastOp.did].pause_timer # None
    /\ timers[lastOp.did][sessions[lastOp.did].pause_timer].phase = "waiting"
    /\ Cardinality(LiveTimers(lastOp.did)) = 1

\* C19: in every state between steps (outside _lock), a Session whose debounce
\* flag is true has state = playing; and every `pause` is committed by a
\* callback that found the session playing and debouncing and left it paused.
C19_DebouncingOnlyWhilePlaying ==
    /\ \A d \in DOMAIN sessions : sessions[d].debouncing => sessions[d].state = "playing"
    /\ HasEvent(lastEmit, "pause") =>
          /\ lastOp.op = "_confirm_pause"
          /\ lastOp.found.debouncing
          /\ lastOp.found.state = "playing"
          /\ sessions[lastOp.did].state = "paused"
          /\ ~sessions[lastOp.did].debouncing

\* A pause committed by the callback of a timer that had been cancelled too
\* late: this one too found the session playing.
C19_Witness ==
    /\ lastOp.op = "_confirm_pause"
    /\ lastOp.timer.cancelled
    /\ HasEvent(lastEmit, "pause")
    /\ lastOp.found.state = "playing"
    /\ sessions[lastOp.did].state = "paused"

\* A `pause` was emitted for d by the step just taken.
EmitsPause(d) ==
    \E i \in 1..Len(lastEmit') : lastEmit'[i].did = d /\ lastEmit'[i].event = "pause"

\* C20: for every device, whatever the interleaving of records and timer
\* callbacks (stale ones included), a `pause` is emitted only when a `play` or
\* `PlaybackStart` has been emitted for the device since its previous `pause`.
C20_PausesSeparated ==
    [][\A d \in DeviceIds : EmitsPause(d) => ~pausing[d].afterPause]_vars

\* Two timers were alive when the first committed the pause (cancelled too
\* late, it found the flag set again); the callback of the second has now run
\* and emitted nothing.
C20_Witness ==
    /\ lastOp.op = "_confirm_pause"
    /\ ~lastOp.timer.cancelled
    /\ lastEmit = <<>>
    /\ pausing[lastOp.did].afterPause
    /\ pausing[lastOp.did].armed
    /\ pausing[lastOp.did].pauses = 1
    /\ sessions[lastOp.did].state = "paused"

====
